---------------------------- MODULE Spec2Model ----------------------------
(***************************************************************************)
(* A model of parser/src/git.rs: the pack scan of parse_pack (with         *)
(* apply_delta) and the history walk of ChangeCounter (process,            *)
(* walk_commit, record_changes, count_change, build_tree_node).            *)
(*                                                                         *)
(* Object identifiers are opaque 20-byte values in the program; here they  *)
(* are strings (commits, trees, blobs of the walk) or the hashed content   *)
(* itself (the pack scan, SHA-1 taken as collision free).                  *)
(***************************************************************************)
EXTENDS Naturals, Sequences, FiniteSets, TLC

VARIABLES
    commits,            \* ParsePackResult.commits : HashMap<Vec<u8>, GitCommit>
    trees,              \* ParsePackResult.trees   : HashMap<Vec<u8>, GitTree>
    head,               \* head_commit argument of ChangeCounter::process
    processed_commits,  \* ChangeCounter.processed_commits : HashSet<Vec<u8>>
    num_changes,        \* ChangeCounter.num_changes : HashMap<String, u32>
    stack,              \* call stack of walk_commit: frames [sha, at]
    pc,                 \* position of ChangeCounter::process
    result,             \* the TreeNode process returns
    diffs               \* history: the record_changes calls walk_commit has made,
                        \* as <<commit_sha, index into commit.parents>>

walkVars == <<commits, trees, head, processed_commits, num_changes, stack, pc,
              result, diffs>>

VARIABLES
    pack,               \* data argument of parse_pack: [num_objects, records]
    pack_p,             \* parse_pack's p: the records before it are read
    count,              \* parse_pack's count
    objects,            \* parse_pack's objects : HashMap<Vec<u8>, PackObject>
    ppc,                \* position of parse_pack
    parsed,             \* the OIDs of ParsePackResult.commits and .trees
    inserted            \* history: the number of objects.insert calls

packVars == <<pack, pack_p, count, objects, ppc, parsed, inserted>>

vars == <<walkVars, packVars>>

(***************************************************************************)
(* Bounds of the walk.                                                     *)
(***************************************************************************)
MaxParents == 2
StackLimit == 4

(***************************************************************************)
(* Bound of the pack scan: the records of a pack.                          *)
(***************************************************************************)
MaxObjects == 3

CommitOids == {"c1", "c2", "c3"}

----------------------------------------------------------------------------
(***************************************************************************)
(* Tree objects.  GitTreeEntry { is_dir, name, sha }.                      *)
(***************************************************************************)
File(n, s) == [is_dir |-> FALSE, name |-> n, sha |-> s]
Dir(n, s)  == [is_dir |-> TRUE,  name |-> n, sha |-> s]

\* The tree objects a pack of the model may hold, keyed by OID.
\* An OID is the hash of the content (parse_pack keys every tree by the SHA-1
\* of its payload), so two OIDs are equal exactly when the contents are.
\*   r1 /a/{b.txt,c.txt} /x          r2 = r1 with /a/b.txt modified
\*   r3 = r1 with /x modified        r4 = r1 with /a/b.txt and /a/c.txt modified
\*   r5: /a is a file, /x modified   r6: /a/c.txt is a directory, /a/e.txt and
\*   r7, r8: differ in /a/d/z            /y added, /x deleted, /a/b.txt modified
\*   r9 = r1 with /x deleted
TreeObjects ==
    [ r1 |-> <<Dir("a", "a1"), File("x", "b1")>>,
      r2 |-> <<Dir("a", "a2"), File("x", "b1")>>,
      r3 |-> <<Dir("a", "a1"), File("x", "b2")>>,
      r4 |-> <<Dir("a", "a4"), File("x", "b1")>>,
      r5 |-> <<File("a", "b1"), File("x", "b2")>>,
      r6 |-> <<Dir("a", "a6"), File("y", "b1")>>,
      r7 |-> <<Dir("a", "a7"), File("x", "b1")>>,
      r8 |-> <<Dir("a", "a8"), File("x", "b1")>>,
      r9 |-> <<Dir("a", "a1")>>,
      a1 |-> <<File("b.txt", "b1"), File("c.txt", "b1")>>,
      a2 |-> <<File("b.txt", "b2"), File("c.txt", "b1")>>,
      a4 |-> <<File("b.txt", "b2"), File("c.txt", "b2")>>,
      a6 |-> <<File("b.txt", "b2"), Dir("c.txt", "d1"), File("e.txt", "b1")>>,
      a7 |-> <<File("b.txt", "b1"), Dir("d", "d1")>>,
      a8 |-> <<File("b.txt", "b1"), Dir("d", "d2")>>,
      d1 |-> <<File("z", "b1")>>,
      d2 |-> <<File("z", "b2")>> ]

\* the root trees of the histories of any shape, and those of the merges
RootOids == {"r1", "r2", "r3"}
MergeRootOids == {"r1", "r2", "r3", "r4", "r5", "r6", "r7", "r8", "r9"}

\* Vec<Vec<u8>> of parent OIDs: at most MaxParents of them, none repeated.
RECURSIVE ParentListsOf(_)
ParentListsOf(n) ==
    IF n = 0 THEN {<<>>}
    ELSE LET shorter == ParentListsOf(n - 1)
         IN  shorter \cup
             { Append(l, c) : l \in {s \in shorter : Len(s) = n - 1},
                              c \in CommitOids }

NoRepeat(l) == \A i, j \in 1..Len(l) : i # j => l[i] # l[j]

ParentLists == {l \in ParentListsOf(MaxParents) : NoRepeat(l)}

GitCommit(roots, lists) == [tree_sha : roots, parents : lists]

----------------------------------------------------------------------------
(***************************************************************************)
(* ChangeCounter                                                           *)
(***************************************************************************)
Last(s) == s[Len(s)]

\* an insert that forgets the previous count
count_change_reset(nc, path) ==
    IF path \in DOMAIN nc THEN [nc EXCEPT ![path] = 1]
    ELSE nc @@ (path :> 1)

\* count_change: num_changes.insert(path, previous + 1), previous defaulting to 0
count_change(nc, path) ==
    IF path \in DOMAIN nc THEN [nc EXCEPT ![path] = @ + 1]
    ELSE nc @@ (path :> 1)

RECURSIVE count_prefixes(_, _, _)

\* a loop that counts the innermost directory alone
count_prefixes_last(nc, prefix, i) == count_change(nc, Last(prefix))

\* a loop that starts one entry late and so leaves the root out
count_prefixes_below_root(nc, prefix, i) ==
    IF i > Len(prefix) THEN nc
    ELSE count_prefixes(IF i = 1 THEN nc ELSE count_change(nc, prefix[i]), prefix, i + 1)

\* for dir in &prefix { self.count_change(dir) }
count_prefixes(nc, prefix, i) ==
    IF i > Len(prefix) THEN nc
    ELSE count_prefixes(count_change(nc, prefix[i]), prefix, i + 1)

\* a find that asks for a directory whatever the entry is
find_entry_dirs_only(b, entry) ==
    LET hits == {i \in 1..Len(b) : b[i].name = entry.name /\ b[i].is_dir}
    IN  IF hits = {} THEN 0 ELSE CHOOSE i \in hits : \A j \in hits : i <= j

\* a find by name alone
find_entry_by_name(b, entry) ==
    LET hits == {i \in 1..Len(b) : b[i].name = entry.name}
    IN  IF hits = {} THEN 0 ELSE CHOOSE i \in hits : \A j \in hits : i <= j

\* b.iter().find(|&ent| ent.name == entry.name && ent.is_dir == entry.is_dir):
\* the index of the first such entry of b, 0 for None
find_entry(b, entry) ==
    LET hits == {i \in 1..Len(b) : b[i].name = entry.name /\ b[i].is_dir = entry.is_dir}
    IN  IF hits = {} THEN 0 ELSE CHOOSE i \in hits : \A j \in hits : i <= j

\* record_changes; a failed unwrap (a tree OID absent from pack.trees) is ok = FALSE
RECURSIVE record_changes(_, _, _, _, _), record_entries(_, _, _, _, _, _)

\* a diff that takes a tree it cannot find for an unchanged one
record_changes_lenient(tr, nc, from_tree, to_tree, prefix) ==
    IF from_tree = to_tree \/ from_tree \notin DOMAIN tr \/ to_tree \notin DOMAIN tr
    THEN [ok |-> TRUE, nc |-> nc]
    ELSE record_entries(tr, nc, tr[from_tree], tr[to_tree], prefix, 1)

record_changes(tr, nc, from_tree, to_tree, prefix) ==
    IF from_tree = to_tree THEN [ok |-> TRUE, nc |-> nc]
    ELSE IF from_tree \notin DOMAIN tr \/ to_tree \notin DOMAIN tr
         THEN [ok |-> FALSE, nc |-> nc]
         ELSE record_entries(tr, nc, tr[from_tree], tr[to_tree], prefix, 1)

\* the loop "for entry in a" of record_changes, from entry i on
record_entries(tr, nc, a, b, prefix, i) ==
    IF i > Len(a) THEN [ok |-> TRUE, nc |-> nc]
    ELSE LET entry == a[i]
             in_b  == find_entry(b, entry)
         IN  IF in_b = 0 \/ entry.sha = b[in_b].sha
             THEN record_entries(tr, nc, a, b, prefix, i + 1)
             ELSE IF entry.is_dir
                  THEN LET new_prefix == Append(prefix, Last(prefix) \o entry.name \o "/")
                           r == record_changes(tr, nc, entry.sha, b[in_b].sha, new_prefix)
                       IN  IF r.ok THEN record_entries(tr, r.nc, a, b, prefix, i + 1)
                           ELSE r
                  ELSE record_entries(tr,
                           count_change(count_prefixes(nc, prefix, 1),
                                        Last(prefix) \o entry.name),
                           a, b, prefix, i + 1)

\* *self.num_changes.get(&path).unwrap_or(&0)
changes_at(nc, path) == IF path \in DOMAIN nc THEN nc[path] ELSE 0

\* build_tree_node; a failed unwrap is ok = FALSE
RECURSIVE build_tree_node(_, _, _, _, _), build_children(_, _, _, _, _)
build_tree_node(tr, nc, path, name, tree_sha) ==
    IF tree_sha \notin DOMAIN tr THEN [ok |-> FALSE, node |-> <<>>]
    ELSE LET ch == build_children(tr, nc, path, tr[tree_sha], 1)
         IN  IF ~ch.ok THEN [ok |-> FALSE, node |-> <<>>]
             ELSE [ok |-> TRUE,
                   node |-> [name |-> name, type |-> "directory",
                             numChanges |-> changes_at(nc, path),
                             numFiles |-> 666, children |-> ch.nodes]]

\* the loop "for entry in tree" of build_tree_node, from entry i on
build_children(tr, nc, path, tree, i) ==
    IF i > Len(tree) THEN [ok |-> TRUE, nodes |-> <<>>]
    ELSE LET entry == tree[i]
             first ==
                 IF entry.is_dir
                 THEN build_tree_node(tr, nc, path \o entry.name \o "/", entry.name, entry.sha)
                 ELSE [ok |-> TRUE,
                       node |-> [name |-> entry.name, type |-> "file",
                                 numChanges |-> changes_at(nc, path \o entry.name),
                                 numFiles |-> 666, children |-> <<>>]]
         IN  IF ~first.ok THEN [ok |-> FALSE, nodes |-> <<>>]
             ELSE LET rest == build_children(tr, nc, path, tree, i + 1)
                  IN  IF ~rest.ok THEN rest
                      ELSE [ok |-> TRUE, nodes |-> <<first.node>> \o rest.nodes]

\* a check that never finds the commit
already_processed_never(done, commit_sha) == FALSE

\* an insert that is lost
mark_processed_forgets(done, commit_sha) == done

\* self.processed_commits.contains(commit_sha)
already_processed(done, commit_sha) == commit_sha \in done

\* self.processed_commits.insert(commit_sha.to_vec())
mark_processed(done, commit_sha) == done \cup {commit_sha}

Top == stack[Len(stack)]
Pop == SubSeq(stack, 1, Len(stack) - 1)

\* ChangeCounter::process up to the call of walk_commit(head_commit)
Process ==
    /\ pc = "start"
    /\ IF head \notin DOMAIN commits
       THEN /\ pc' = "panic"
            /\ UNCHANGED stack
       ELSE /\ pc' = "walk"
            /\ stack' = <<[sha |-> head, at |-> 0]>>
    /\ UNCHANGED <<commits, trees, head, processed_commits, num_changes, result, diffs>>
    /\ UNCHANGED packVars

\* walk_commit from its entry to the head of its loop over commit.parents
WalkEnter ==
    /\ pc = "walk" /\ stack # <<>> /\ Top.at = 0
    /\ IF already_processed(processed_commits, Top.sha)
       THEN /\ stack' = Pop
            /\ UNCHANGED <<processed_commits, pc>>
       ELSE /\ processed_commits' = mark_processed(processed_commits, Top.sha)
            /\ IF Top.sha \notin DOMAIN commits
               THEN /\ pc' = "panic"
                    /\ UNCHANGED stack
               ELSE /\ stack' = [stack EXCEPT ![Len(stack)].at = 1]
                    /\ UNCHANGED pc
    /\ UNCHANGED <<commits, trees, head, num_changes, result, diffs>>
    /\ UNCHANGED packVars

\* one round of "for parent_sha in &commit.parents": the tree diff, then the
\* recursive call
WalkParent ==
    /\ pc = "walk" /\ stack # <<>> /\ Top.at >= 1
    /\ Top.at <= Len(commits[Top.sha].parents)
    /\ LET commit     == commits[Top.sha]
           parent_sha == commit.parents[Top.at]
       IN  IF parent_sha \notin DOMAIN commits
           THEN /\ pc' = "panic"
                /\ UNCHANGED <<num_changes, stack, diffs>>
           ELSE LET r == record_changes(trees, num_changes,
                                        commits[parent_sha].tree_sha,
                                        commit.tree_sha, <<"/">>)
                IN  /\ diffs' = Append(diffs, <<Top.sha, Top.at>>)
                    /\ IF ~r.ok
                       THEN /\ pc' = "panic"
                            /\ UNCHANGED <<num_changes, stack>>
                       ELSE /\ num_changes' = r.nc
                            /\ IF Len(stack) >= StackLimit
                               THEN /\ pc' = "overflow"
                                    /\ UNCHANGED stack
                               ELSE /\ stack' = Append([stack EXCEPT ![Len(stack)].at = @ + 1],
                                                       [sha |-> parent_sha, at |-> 0])
                                    /\ UNCHANGED pc
    /\ UNCHANGED <<commits, trees, head, processed_commits, result>>
    /\ UNCHANGED packVars

\* walk_commit returns after its loop
WalkReturn ==
    /\ pc = "walk" /\ stack # <<>> /\ Top.at >= 1
    /\ Top.at > Len(commits[Top.sha].parents)
    /\ stack' = Pop
    /\ UNCHANGED <<commits, trees, head, processed_commits, num_changes, pc, result, diffs>>
    /\ UNCHANGED packVars

\* ChangeCounter::process after walk_commit: build_tree_node of the head's tree
Build ==
    /\ pc = "walk" /\ stack = <<>>
    /\ LET r == build_tree_node(trees, num_changes, "/", "", commits[head].tree_sha)
       IN  IF r.ok THEN pc' = "done" /\ result' = r.node
           ELSE pc' = "panic" /\ UNCHANGED result
    /\ UNCHANGED <<commits, trees, head, processed_commits, num_changes, stack, diffs>>
    /\ UNCHANGED packVars

----------------------------------------------------------------------------
(***************************************************************************)
(* parse_pack.  A pack is its declared object count and its records; a     *)
(* record is the bytes of its type-and-size header, the base OID (read     *)
(* only for a reference delta) and the bytes its zlib stream inflates to.  *)
(***************************************************************************)
ObjCommit == 1
ObjTree == 2
ObjBlob == 3
ObjTag == 4
ObjOfsDelta == 6
ObjRefDelta == 7

None == "None"

\* PackObjectType::new: the codes it knows; any other panics
KnownTypes == {ObjCommit, ObjTree, ObjBlob, ObjTag, ObjOfsDelta, ObjRefDelta}

\* a mapping that names the deltas too
git_name_of_any(obj_type) ==
    CASE obj_type = ObjCommit -> "commit"
      [] obj_type = ObjTree -> "tree"
      [] obj_type = ObjBlob -> "blob"
      [] obj_type = ObjTag -> "tag"
      [] OTHER -> "delta"

\* PackObjectType::git_name
git_name(obj_type) ==
    CASE obj_type = ObjCommit -> "commit"
      [] obj_type = ObjTree -> "tree"
      [] obj_type = ObjBlob -> "blob"
      [] obj_type = ObjTag -> "tag"
      [] OTHER -> None

\* (first_byte << 1 >> 5) on a u8: bits 6..4
type_bits(first_byte) == ((first_byte * 2) % 256) \div 32

\* (first_byte << 4 >> 4) on a u8: bits 3..0
size_bits(first_byte) == ((first_byte * 16) % 256) \div 16

\* while data[p + n] & msb != 0 { n += 1; len += (data[p + n] & !msb) << (4 + 7 * (n - 1)) }
RECURSIVE read_len(_, _, _)
read_len(header, n, len) ==
    IF header[n + 1] >= 128
    THEN read_len(header, n + 1, len + (header[n + 2] % 128) * 2^(4 + 7 * n))
    ELSE len

\* SHA-1 of "<name> <len>\0" followed by the data, taken as collision free
Sha1(name, data) == <<name, Len(data), data>>

Failed == [ok |-> FALSE, p |-> 0, value |-> 0, data |-> <<>>]

\* apply_delta: while delta[p] & msb != 0 { p += 1 }; p += 1
RECURSIVE skip_size(_, _)
skip_size(delta, at) ==
    IF at >= Len(delta) THEN Failed
    ELSE IF delta[at + 1] >= 128 THEN skip_size(delta, at + 1)
         ELSE [ok |-> TRUE, p |-> at + 1, value |-> 0, data |-> <<>>]

\* apply_delta: the optional bytes of a copy instruction that bits first..end-1
\* of instr announce, little endian
RECURSIVE read_fields(_, _, _, _, _, _, _)
read_fields(delta, at, instr, first, bit, end, value) ==
    IF bit = end THEN [ok |-> TRUE, p |-> at, value |-> value, data |-> <<>>]
    ELSE IF (instr \div 2^bit) % 2 = 0
         THEN read_fields(delta, at, instr, first, bit + 1, end, value)
         ELSE IF at >= Len(delta) THEN Failed
              ELSE read_fields(delta, at + 1, instr, first, bit + 1, end,
                               value + delta[at + 1] * 2^(8 * (bit - first)))

\* apply_delta: the loop over the instructions; an index out of range and the
\* instruction 0 panic
RECURSIVE run_delta(_, _, _, _)
run_delta(base, delta, at, out) ==
    IF at >= Len(delta) THEN [ok |-> TRUE, p |-> at, value |-> 0, data |-> out]
    ELSE LET instr == delta[at + 1]
             q == at + 1
         IN  IF instr = 0 THEN Failed
             ELSE IF instr >= 128
             THEN LET base_offset == read_fields(delta, q, instr, 0, 0, 4, 0)
                      copy_size == read_fields(delta, base_offset.p, instr, 4, 4, 7, 0)
                  IN  IF ~base_offset.ok THEN Failed
                      ELSE IF ~copy_size.ok THEN Failed
                      ELSE IF base_offset.value + copy_size.value > Len(base) THEN Failed
                      ELSE run_delta(base, delta, copy_size.p,
                               out \o SubSeq(base, base_offset.value + 1,
                                                base_offset.value + copy_size.value))
             ELSE IF q + instr > Len(delta) THEN Failed
                  ELSE run_delta(base, delta, q + instr,
                                 out \o SubSeq(delta, q + 1, q + instr))

apply_delta(base, delta) ==
    LET source_length == skip_size(delta, 0)
        target_length == skip_size(delta, source_length.p)
    IN  IF ~source_length.ok THEN Failed
        ELSE IF ~target_length.ok THEN Failed
        ELSE run_delta(base, delta, target_length.p, <<>>)

\* objects.insert(sha, PackObject { obj_type, data })
insert(objs, sha, obj) ==
    [o \in DOMAIN objs \cup {sha} |-> IF o = sha THEN obj ELSE objs[o]]

\* if let Some(name) = obj_type.git_name() { ... objects.insert(sha, ...) }
ingest(objs, obj_type, data) ==
    IF git_name(obj_type) # None
    THEN [ok |-> TRUE, inserted |-> TRUE,
          objects |-> insert(objs, Sha1(git_name(obj_type), data),
                             [obj_type |-> obj_type, data |-> data])]
    ELSE [ok |-> TRUE, inserted |-> FALSE, objects |-> objs]

\* one round of "while p < data.len() - SHA_SIZE" after count += 1; a panic
\* (an unknown type, an offset delta, a failed assert_eq, a bad delta) is ok = FALSE
read_record(objs, rec) ==
    LET first_byte == rec.header[1]
        code == type_bits(first_byte)
        len == read_len(rec.header, 0, size_bits(first_byte))
        decompressed == IF len > 0 THEN rec.payload ELSE <<>>
        panic == [ok |-> FALSE, inserted |-> FALSE, objects |-> objs]
    IN  IF code \notin KnownTypes THEN panic
        ELSE IF code = ObjOfsDelta THEN panic
        ELSE IF len # Len(decompressed) THEN panic
        ELSE IF code = ObjRefDelta /\ rec.base \in DOMAIN objs
             THEN LET base_obj == objs[rec.base]
                      undeltified == apply_delta(base_obj.data, decompressed)
                  IN  IF ~undeltified.ok THEN panic
                      ELSE ingest(objs, base_obj.obj_type, undeltified.data)
             ELSE ingest(objs, code, decompressed)

\* a check that lets a short pack through
count_at_most(n, num_objects) == n <= num_objects

\* assert_eq!(count, num_objects)
count_matches(n, num_objects) == n = num_objects

\* parse_pack: one record
ScanRecord ==
    /\ ppc = "scan" /\ pack_p <= Len(pack.records)
    /\ count' = count + 1
    /\ LET r == read_record(objects, pack.records[pack_p])
       IN  IF r.ok
           THEN /\ objects' = r.objects
                /\ inserted' = inserted + (IF r.inserted THEN 1 ELSE 0)
                /\ pack_p' = pack_p + 1
                /\ UNCHANGED ppc
           ELSE /\ ppc' = "panic"
                /\ UNCHANGED <<objects, inserted, pack_p>>
    /\ UNCHANGED <<pack, parsed>>
    /\ UNCHANGED walkVars

\* parse_pack after the scan: the count check, then the commits and the trees
\* of the object table (their payloads' parsing is not modelled)
FinishScan ==
    /\ ppc = "scan" /\ pack_p > Len(pack.records)
    /\ IF count_matches(count, pack.num_objects)
       THEN /\ ppc' = "parsed"
            /\ parsed' = [commits |-> {o \in DOMAIN objects : objects[o].obj_type = ObjCommit},
                          trees |-> {o \in DOMAIN objects : objects[o].obj_type = ObjTree}]
       ELSE /\ ppc' = "panic"
            /\ UNCHANGED parsed
    /\ UNCHANGED <<pack, pack_p, count, objects, inserted>>
    /\ UNCHANGED walkVars

(***************************************************************************)
(* The records of the model's packs.                                       *)
(***************************************************************************)
Record(h, b, z) == [header |-> h, base |-> b, payload |-> z]

NoBase == <<>>
BlobA == <<7>>
BlobB == <<7, 8>>
TreeT == <<9>>
Long == <<1, 2, 3, 4, 5, 6, 7, 8, 9, 10, 11, 12, 13, 14, 15, 16>>

PackRecords ==
    { Record(<<49>>, NoBase, BlobA),                        \* blob, 1 byte
      Record(<<50>>, NoBase, BlobB),                        \* blob, 2 bytes
      Record(<<33>>, NoBase, TreeT),                        \* tree, 1 byte
      Record(<<48>>, NoBase, <<>>),                         \* blob, empty
      Record(<<144, 1>>, NoBase, Long),                     \* commit, 16 bytes
      Record(<<50>>, NoBase, BlobA),                        \* blob, size 2 declared, 1 held
      Record(<<97>>, NoBase, <<0>>),                        \* offset delta
      Record(<<81>>, NoBase, <<0>>),                        \* type code 5
      \* delta on BlobA: copy 1 byte from 0, insert <<8>>: BlobB
      Record(<<118>>, Sha1("blob", BlobA), <<1, 2, 144, 1, 1, 8>>),
      \* delta on BlobB: copy 1 byte from 1: <<8>>
      Record(<<117>>, Sha1("blob", BlobB), <<2, 1, 145, 1, 1>>),
      \* delta on TreeT: copy 1 byte from 0: TreeT again
      Record(<<116>>, Sha1("tree", TreeT), <<1, 1, 144, 1>>),
      \* delta on BlobA: copy 5 bytes of its 1
      Record(<<116>>, Sha1("blob", BlobA), <<1, 1, 144, 5>>),
      \* delta on BlobA: instruction 0
      Record(<<115>>, Sha1("blob", BlobA), <<1, 1, 0>>) }

RECURSIVE PacksOf(_)
PacksOf(n) ==
    IF n = 0 THEN {<<>>}
    ELSE LET shorter == PacksOf(n - 1)
         IN  shorter \cup
             {Append(l, r) : l \in {s \in shorter : Len(s) = n - 1}, r \in PackRecords}

\* parse_pack has not started
Packs ==
    /\ pack \in [num_objects : 0..(MaxObjects + 1), records : PacksOf(MaxObjects)]
    /\ pack_p = 1
    /\ count = 0
    /\ objects = <<>>
    /\ ppc = "scan"
    /\ inserted = 0
    /\ parsed = [commits |-> {}, trees |-> {}]

\* parse_pack has returned; the walk's specifications hold its result in
\* commits and trees
PackParsed ==
    /\ pack = [num_objects |-> 0, records |-> <<>>]
    /\ pack_p = 1
    /\ count = 0
    /\ objects = <<>>
    /\ ppc = "parsed"
    /\ inserted = 0
    /\ parsed = [commits |-> {}, trees |-> {}]

\* ChangeCounter { pack, processed_commits: HashSet::new(), num_changes: HashMap::new() }
Fresh ==
    /\ processed_commits = {}
    /\ num_changes = <<>>
    /\ stack = <<>>
    /\ pc = "start"
    /\ result = <<>>
    /\ diffs = <<>>

\* a pack whose objects all resolve, its history of any shape (merges, shared
\* ancestors, cycles) over a few root trees
Histories ==
    /\ commits \in [CommitOids -> GitCommit(RootOids, ParentLists)]
    /\ trees = TreeObjects
    /\ head = "c3"

\* a pack whose objects all resolve: a head with up to MaxParents parents that
\* are root commits, over trees with additions, deletions and kind changes
Merges ==
    /\ commits \in [CommitOids -> GitCommit(MergeRootOids, ParentLists)]
    /\ \A c \in CommitOids \ {"c3"} : commits[c].parents = <<>>
    /\ trees = TreeObjects
    /\ head = "c3"

\* any history; the trees of the commits below head are one tree
Loops ==
    /\ commits \in [CommitOids -> GitCommit({"r1", "r2"}, ParentLists)]
    /\ \A c \in CommitOids \ {"c3"} : commits[c].tree_sha = "r1"
    /\ trees = TreeObjects
    /\ head = "c3"

\* a pack in which at most one commit and at most one tree are absent
Missing ==
    /\ \E gone \in {{}} \cup {{c} : c \in CommitOids} :
           commits \in [CommitOids \ gone -> GitCommit({"r1", "r2"}, ParentLists)]
    /\ \E gone \in {{}} \cup {{t} : t \in {"r1", "r2", "a1", "a2"}} :
           trees = [t \in DOMAIN TreeObjects \ gone |-> TreeObjects[t]]
    /\ head = "c3"

\* process has not been called
WalkIdle ==
    /\ commits = <<>>
    /\ trees = <<>>
    /\ head = "c3"

Init == (Histories \/ Merges) /\ Fresh /\ PackParsed

InitMissing == Missing /\ Fresh /\ PackParsed

InitLoops == Loops /\ Fresh /\ PackParsed

InitPack == Packs /\ WalkIdle /\ Fresh

Next == Process \/ WalkEnter \/ WalkParent \/ WalkReturn \/ Build

Spec == Init /\ [][Next]_vars

SpecMissing == InitMissing /\ [][Next]_vars

NextPack == ScanRecord \/ FinishScan

SpecPack == InitPack /\ [][NextPack]_vars

FairSpec == InitLoops /\ [][Next]_vars /\ WF_vars(Next)

----------------------------------------------------------------------------
(***************************************************************************)
(* What the claims speak of, stated on the commit graph and on the trees   *)
(* as sets of paths, apart from the walk and from record_changes.          *)
(***************************************************************************)
Range(s) == {s[i] : i \in 1..Len(s)}

RECURSIVE ReachFrom(_, _)
ReachFrom(seen, frontier) ==
    IF frontier = {} THEN seen
    ELSE LET now == seen \cup frontier
             next == UNION {IF c \in DOMAIN commits THEN Range(commits[c].parents) ELSE {}
                            : c \in frontier}
         IN  ReachFrom(now, next \ now)

\* the commits the walk from head can reach, head included
Ancestry == ReachFrom({}, {head})

\* every entry below tree oid, with its path as the program spells it
RECURSIVE Flatten(_, _, _)
Flatten(tr, oid, path) ==
    IF oid \notin DOMAIN tr THEN {}
    ELSE UNION { IF e.is_dir
                 THEN {[path |-> path \o e.name \o "/", is_dir |-> TRUE, sha |-> e.sha]}
                      \cup Flatten(tr, e.sha, path \o e.name \o "/")
                 ELSE {[path |-> path \o e.name, is_dir |-> FALSE, sha |-> e.sha]}
                 : e \in Range(tr[oid]) }

\* the entries of every root tree of the model, by tree OID
Entries == [r \in MergeRootOids |-> Flatten(TreeObjects, r, "/")]

AllEntries == UNION {Entries[r] : r \in MergeRootOids}
FilePaths == {e.path : e \in {x \in AllEntries : ~x.is_dir}}
DirPaths == {e.path : e \in {x \in AllEntries : x.is_dir}} \cup {"/"}

IsDirPath(p) == SubSeq(p, Len(p), Len(p)) = "/"

\* path f lies under directory path d
IsUnder(d, f) == IsDirPath(d) /\ Len(d) < Len(f) /\ SubSeq(f, 1, Len(d)) = d

\* an entry of this path and kind exists in both trees, with different OIDs
EntryDiffers(from, to, p, dir) ==
    \E e1 \in Entries[from], e2 \in Entries[to] :
        /\ e1.path = p /\ e2.path = p
        /\ e1.is_dir = dir /\ e2.is_dir = dir
        /\ e1.sha # e2.sha

\* the files both trees hold, with different OIDs
Modified ==
    [from \in MergeRootOids, to \in MergeRootOids |->
        {f \in FilePaths : EntryDiffers(from, to, f, FALSE)}]

FileDiffers(from, to, f) == f \in Modified[from, to]

\* the files modified between two trees, at or under path p
ModifiedAt(from, to, p) == {f \in Modified[from, to] : f = p \/ IsUnder(p, f)}

\* the paths, with their kinds, that a tree holds
Shape == [r \in MergeRootOids |-> {<<e.path, e.is_dir>> : e \in Entries[r]}]

\* the two trees hold the same paths with the same kinds
SameShape(from, to) == Shape[from] = Shape[to]

\* the trees differ in the one file f and in nothing else
DifferOnlyIn(from, to, f) == SameShape(from, to) /\ Modified[from, to] = {f}

\* the (commit, parent) pairs of the walked ancestry, one per entry of a parent list
Edges == UNION {{<<c, i>> : i \in 1..Len(commits[c].parents)} : c \in Ancestry}
FromTree(e) == commits[commits[e[1]].parents[e[2]]].tree_sha
ToTree(e) == commits[e[1]].tree_sha

----------------------------------------------------------------------------
\* C1's case: the history is the head and its one parent, a root commit, and the
\* two trees differ in /a/b.txt alone
TwoCommits ==
    \E c \in CommitOids \ {head} :
        /\ commits[head].parents = <<c>>
        /\ commits[c].parents = <<>>
        /\ DifferOnlyIn(commits[c].tree_sha, commits[head].tree_sha, "/a/b.txt")

\* C1: two commits that differ in the file /a/b.txt alone leave 1 at /a/b.txt,
\* at /a/ and at /, and no other counter
C1_TwoCommitsOneFile ==
    (pc = "done" /\ TwoCommits) =>
        num_changes = [p \in {"/", "/a/", "/a/b.txt"} |-> 1]

C1_Witness == pc = "done" /\ TwoCommits /\ result.numChanges = 1

\* a linear chain of k commits, every one but the first differing from its
\* parent in /x alone
Chain(k) ==
    /\ Cardinality(Ancestry) = k
    /\ \A c \in Ancestry : Len(commits[c].parents) <= 1
    /\ \E c \in Ancestry : commits[c].parents = <<>>
    /\ \A e \in Edges : DifferOnlyIn(FromTree(e), ToTree(e), "/x")

ChainLengths == 1..Cardinality(CommitOids)

\* C2 as stated: a chain of k commits leaves k at /x and at /
C2_ChainCountsK ==
    \A k \in ChainLengths \ {1} :
        (pc = "done" /\ Chain(k)) =>
            /\ changes_at(num_changes, "/x") = k
            /\ changes_at(num_changes, "/") = k

\* C2 amended: a chain of k commits leaves k - 1 at /x and at /: the first
\* commit has no parent to be compared with
C2_ChainCountsEdges ==
    \A k \in ChainLengths :
        (pc = "done" /\ Chain(k)) =>
            /\ changes_at(num_changes, "/x") = k - 1
            /\ changes_at(num_changes, "/") = k - 1

C2_Witness == pc = "done" /\ Chain(3) /\ changes_at(num_changes, "/x") = 2

\* C3 as stated: the counter of a path is the number of commits of the ancestry
\* whose tree differs from a parent's at that path
DiffersAt(from, to, p) ==
    IF p = "/" THEN from # to
    ELSE EntryDiffers(from, to, p, TRUE) \/ EntryDiffers(from, to, p, FALSE)

C3_CountsCommits ==
    pc = "done" =>
        \A p \in FilePaths \cup DirPaths :
            changes_at(num_changes, p) =
                Cardinality({c \in Ancestry :
                    \E i \in 1..Len(commits[c].parents) :
                        DiffersAt(FromTree(<<c, i>>), ToTree(<<c, i>>), p)})

\* C3 amended: the counter of a path is the number of (commit, parent, file)
\* triples of the ancestry in which the file, at or under the path, is
\* modified between the parent's tree and the commit's
C3_CountsModifications ==
    pc = "done" =>
        /\ DOMAIN num_changes \subseteq FilePaths \cup DirPaths
        /\ \A p \in FilePaths \cup DirPaths :
               changes_at(num_changes, p) =
                   Cardinality({x \in Edges \X FilePaths :
                       x[2] \in ModifiedAt(FromTree(x[1]), ToTree(x[1]), p)})

\* a commit that modifies two files of one directory, or a merge that modifies
\* a file against both parents, has been walked
C3_Witness ==
    /\ pc = "done"
    /\ \E e \in Edges : Cardinality(ModifiedAt(FromTree(e), ToTree(e), "/a/")) = 2
    /\ \E c \in Ancestry, f \in FilePaths :
           /\ Len(commits[c].parents) = 2
           /\ \A i \in 1..2 : FileDiffers(FromTree(<<c, i>>), ToTree(<<c, i>>), f)

\* the tree diff a WalkParent step is about to run
DiffPending ==
    /\ pc = "walk" /\ stack # <<>> /\ Top.at >= 1
    /\ Top.at <= Len(commits[Top.sha].parents)
    /\ commits[Top.sha].parents[Top.at] \in DOMAIN commits

\* C4: a tree diff raises each counter by the number of files, at or under its
\* path, that both trees hold with different OIDs: an entry that only one tree
\* holds, or that changed its kind, raises none
C4_OnlyModifiedFilesCount ==
    [][DiffPending =>
          \A p \in FilePaths \cup DirPaths \cup DOMAIN num_changes' :
              changes_at(num_changes', p) =
                  changes_at(num_changes, p)
                    + Cardinality(ModifiedAt(FromTree(<<Top.sha, Top.at>>),
                                             ToTree(<<Top.sha, Top.at>>), p))]_vars

\* the paths of entries that one tree holds and the other does not (by name and kind)
OnlyIn(one, other) == Shape[one] \ Shape[other]

\* a diff of two trees with an added file, a deleted file and a changed kind has
\* run, and only the modified file and its directories were counted
C4_Witness ==
    /\ Len(diffs) = 1 /\ pc = "walk"
    /\ LET from == FromTree(diffs[1])
           to == ToTree(diffs[1])
       IN  /\ \E x \in OnlyIn(to, from) : ~x[2]
           /\ \E x \in OnlyIn(from, to) : ~x[2]
           /\ \E x \in OnlyIn(from, to) : <<x[1] \o "/", TRUE>> \in OnlyIn(to, from)
           /\ DOMAIN num_changes = {"/", "/a/", "/a/b.txt"}

\* some commit of the ancestry is its own ancestor
HasCycle == \E c \in Ancestry : c \in ReachFrom({}, Range(commits[c].parents))

\* walk_commit has been called on a commit it has visited
Revisit == pc = "walk" /\ stack # <<>> /\ Top.at = 0 /\ Top.sha \in processed_commits

\* C5: no commit has its parents diffed twice, and a call of walk_commit on a
\* visited commit leaves the visited set and the counters as they are
C5_VisitedOnce ==
    /\ [](NoRepeat(diffs))
    /\ [][Revisit => /\ processed_commits' = processed_commits
                     /\ num_changes' = num_changes
                     /\ diffs' = diffs]_vars
    /\ [][\A c \in processed_commits' \ processed_commits : Top.sha = c /\ Top.at = 0]_vars

\* two children of the walk share a parent, and the second call has returned
C5_Witness ==
    /\ pc = "done"
    /\ ~HasCycle
    /\ \E c, d \in Ancestry : c # d /\ Range(commits[c].parents) \cap Range(commits[d].parents) # {}
    /\ Len(diffs) = Cardinality(Edges)

\* C6: the walk ends, and process returns, whatever the shape of the history
C6_WalkTerminates == <>(pc = "done")

C6_Witness == pc = "done" /\ HasCycle

\* C10: the counter of a directory is the sum of the counters of the files under it
RECURSIVE SumOver(_, _)
SumOver(nc, paths) ==
    IF paths = {} THEN 0
    ELSE LET f == CHOOSE x \in paths : TRUE
         IN  changes_at(nc, f) + SumOver(nc, paths \ {f})

C10_DirectoryIsSumOfFiles ==
    \A d \in DirPaths \cup {p \in DOMAIN num_changes : IsDirPath(p)} :
        changes_at(num_changes, d)
            = SumOver(num_changes, {f \in FilePaths \cup DOMAIN num_changes :
                                        ~IsDirPath(f) /\ IsUnder(d, f)})

C10_Witness ==
    /\ changes_at(num_changes, "/") = 3
    /\ changes_at(num_changes, "/a/") = 2
    /\ changes_at(num_changes, "/x") = 1

\* every commit of the ancestry, and its tree, is in the parsed maps
Resolves ==
    \A c \in Ancestry : c \in DOMAIN commits /\ commits[c].tree_sha \in DOMAIN trees

\* C8: when the head, a parent or the tree of a commit of the ancestry is absent,
\* process returns no result: it goes on until it panics
C8_UnresolvedFails ==
    ~Resolves => /\ pc # "done"
                 /\ result = <<>>
                 /\ pc = "panic" \/ ENABLED Next

\* the walk has diffed one parent and panicked at a later one
C8_Witness == ~Resolves /\ pc = "panic" /\ Len(diffs) >= 2 /\ num_changes # <<>>

\* C7 as stated: parse_pack returns only if as many records as the header
\* declares were inserted into the object table
C7_InsertedEqualsDeclared == ppc = "parsed" => inserted = pack.num_objects

\* C7 amended: parse_pack returns only if as many records as the header declares
\* were read, inserted or not
C7_ReadEqualsDeclared ==
    ppc = "parsed" => count = pack.num_objects /\ Len(pack.records) = pack.num_objects

\* a pack with a skipped record has been accepted
C7_Witness == ppc = "parsed" /\ pack.num_objects >= 2 /\ inserted < count

\* the record parse_pack is about to read
Current == pack.records[pack_p]
Reading == ppc = "scan" /\ pack_p <= Len(pack.records)
IsRefDelta(rec) == type_bits(rec.header[1]) = ObjRefDelta

\* the table after the step is the table before it with this one entry put in
PutIn(oid, obj) ==
    /\ DOMAIN objects' = DOMAIN objects \cup {oid}
    /\ objects'[oid] = obj
    /\ \A o \in DOMAIN objects \ {oid} : objects'[o] = objects[o]

\* C9: a reference delta whose base is in the table puts in the reconstructed
\* payload, with the base's type, under the OID of that payload; one whose base
\* is not in the table leaves the table as it is, and so does every later step
\* but for the entry of the record it reads itself
C9_DeltaNeedsEarlierBase ==
    /\ [][(Reading /\ IsRefDelta(Current) /\ Current.base \in DOMAIN objects) =>
             LET base_obj == objects[Current.base]
                 rebuilt == apply_delta(base_obj.data, Current.payload)
             IN  IF rebuilt.ok
                 THEN /\ ppc' = "scan"
                      /\ PutIn(Sha1(git_name(base_obj.obj_type), rebuilt.data),
                               [obj_type |-> base_obj.obj_type, data |-> rebuilt.data])
                 ELSE ppc' = "panic" /\ objects' = objects]_vars
    /\ [][(Reading /\ IsRefDelta(Current) /\ Current.base \notin DOMAIN objects) =>
             objects' = objects /\ inserted' = inserted]_vars
    /\ [][(Reading /\ ~IsRefDelta(Current)) =>
             DOMAIN objects' \ DOMAIN objects
                 \subseteq {Sha1(git_name(type_bits(Current.header[1])), Current.payload)}]_vars
    /\ [][~Reading => objects' = objects]_vars

\* a delta was skipped, its base came next, the same delta was then resolved
C9_Witness ==
    /\ ppc = "parsed" /\ Len(pack.records) = 3
    /\ IsRefDelta(pack.records[1]) /\ pack.records[3] = pack.records[1]
    /\ ~IsRefDelta(pack.records[2])
    /\ pack.records[1].base \in DOMAIN objects
    /\ inserted = 2 /\ Cardinality(DOMAIN objects) = 2

=============================================================================
